---------------------------- MODULE Spec2Model ----------------------------
(***************************************************************************)
(* Code Sentinel query pipeline: QueryParser (query_parser.py),            *)
(* QueryOptimizer (query_optimizer.py) and QueryExecutor                   *)
(* (query_executor.py) over the IR of query_parser.py.                     *)
(* Python str values are TLA+ strings; Optional[T] is <<>> (None) or <<v>>.*)
(***************************************************************************)
EXTENDS Integers, Sequences, FiniteSets, TLC

VARIABLES
    pattern_cache,    \* QueryOptimizer._pattern_cache: cache key -> set()
    dataflow_cache,   \* QueryOptimizer._dataflow_cache: cache key -> sanitizer list
    opt_query,        \* argument of the last optimize() call
    opt_ret,          \* value the last optimize() call returned
    opt_calls,        \* optimize() calls since construction or clear_caches()
    opt_fed,          \* the last call was given the previous call's return value
    opt_seen,         \* signatures optimized since construction or clear_caches()
    opt_arg,          \* the argument object of the last call, as the call left it
    opt_raised,       \* the exception the last call raised, or "none"
    call_query,       \* execute(): the query argument
    call_paths,       \* execute(): the target_paths argument
    max_workers,      \* QueryExecutor.max_workers
    timeout,          \* QueryExecutor.timeout, in clock ticks
    result_cache,     \* QueryExecutor._result_cache
    status,           \* the call: Pending, Running, Completed, Failed, TimedOut
    raised,           \* the exception the call ended with, or "none"
    yielded,          \* the results handed to the caller so far, in order
    phase,            \* where the generator stands
    call_regex,       \* the compiled pattern in use
    futures,          \* future_to_path: the submitted units, in submission order
    pending,          \* results of the collected future not yet yielded
    source_results,   \* _execute_dataflow_query: source_results
    sink_results,     \* _execute_dataflow_query: sink_results
    idx,              \* cursor of the file loop, or of the source loop
    jdx,              \* cursor of the sink loop
    elapsed,          \* clock ticks since the call started to run
    late_work,        \* a per-file unit was started with the budget used up
    call_no,          \* 1, or 2 for a second execute() on the same executor
    relation,         \* how the second call's arguments relate to the first's
    prev_yielded,     \* what the first call yielded
    prev_raised,      \* what the first call raised
    parse_text,       \* argument of the last parse() call
    parse_grammar,    \* the parser it was given to: "text" or "prefixed"
    parse_ret         \* what the call returned or raised

optVars == <<pattern_cache, dataflow_cache, opt_query, opt_ret, opt_calls, opt_fed,
            opt_seen, opt_arg, opt_raised>>
argVars == <<call_query, call_paths, max_workers, timeout, result_cache>>
runVars == <<status, raised, yielded, phase, call_regex, futures, pending,
             source_results, sink_results, idx, jdx>>
clockVars == <<elapsed, late_work>>
callVars == <<call_no, relation, prev_yielded, prev_raised>>
execVars == <<argVars, runVars, clockVars, callVars>>
parseVars == <<parse_text, parse_grammar, parse_ret>>
vars == <<optVars, execVars, parseVars>>

(***************************************************************************)
(* Bounds of the model.                                                    *)
(***************************************************************************)
\* longest pattern text, in fragments, handed to the optimizer
MaxFrag == 4
\* optimize() calls made on one optimizer between two clear_caches()
MaxCalls == 2
\* longest target_paths list of an execute() call
MaxFiles == 2
\* largest max_workers an executor is configured with
MaxWorkers == 2
\* the configured timeout_seconds, in clock ticks; the clock stops there
TimeoutTicks == 1

\* longest query text, in words, handed to parse()
MaxWords == 3

\* config.get("max_workers", 4)
DefaultMaxWorkers == 4

None == <<>>
Some(v) == <<v>>
IsNone(o) == o = <<>>
Val(o) == o[1]

(***************************************************************************)
(* Python str operations used by the code.                                 *)
(***************************************************************************)
Ch(s, i) == SubSeq(s, i, i)
From(s, i) == SubSeq(s, i, Len(s))

\* str.startswith / str.endswith
StartsWith(s, p) == Len(p) <= Len(s) /\ SubSeq(s, 1, Len(p)) = p
EndsWith(s, p) == Len(p) <= Len(s) /\ SubSeq(s, Len(s) - Len(p) + 1, Len(s)) = p

\* old in s
Contains(s, old) == \E i \in 1..(Len(s) - Len(old) + 1) : SubSeq(s, i, i + Len(old) - 1) = old

\* str.replace(old, new) for non-empty old: leftmost, non-overlapping, one pass
RECURSIVE Replace(_, _, _)
Replace(s, old, new) ==
    IF Len(s) < Len(old) THEN s
    ELSE IF SubSeq(s, 1, Len(old)) = old
         THEN new \o Replace(From(s, Len(old) + 1), old, new)
         ELSE Ch(s, 1) \o Replace(From(s, 2), old, new)

\* str.count(sub) for a one-character sub
RECURSIVE Count(_, _)
Count(s, c) ==
    IF s = "" THEN 0
    ELSE (IF Ch(s, 1) = c THEN 1 ELSE 0) + Count(From(s, 2), c)

UpperLetters == "ABCDEFGHIJKLMNOPQRSTUVWXYZ"
LowerLetters == "abcdefghijklmnopqrstuvwxyz"
LowerCh(c) ==
    IF \E i \in 1..Len(UpperLetters) : Ch(UpperLetters, i) = c
    THEN Ch(LowerLetters, CHOOSE i \in 1..Len(UpperLetters) : Ch(UpperLetters, i) = c)
    ELSE c

\* str.lower()
RECURSIVE Lower(_)
Lower(s) == IF s = "" THEN "" ELSE LowerCh(Ch(s, 1)) \o Lower(From(s, 2))

\* str(x) as an f-string renders it
StrBool(b) == IF b THEN "True" ELSE "False"
StrOpt(o) == IF IsNone(o) THEN "None" ELSE Val(o)

(***************************************************************************)
(* The query IR (query_parser.py), one record per node class.  A threshold *)
(* is a decimal number held in units of 1/10000.                           *)
(***************************************************************************)
PatternNode(pattern, language, case_sensitive, whole_word, location) ==
    [kind |-> "Pattern", pattern |-> pattern, language |-> language,
     case_sensitive |-> case_sensitive, whole_word |-> whole_word, location |-> location]

DataflowNode(source, sink, sanitizers, location) ==
    [kind |-> "Dataflow", source |-> source, sink |-> sink,
     sanitizers |-> sanitizers, location |-> location]

MetricsNode(metric_type, threshold, location) ==
    [kind |-> "Metrics", metric_type |-> metric_type, threshold |-> threshold,
     location |-> location]

\* a QueryNode that is none of the three subclasses
QueryNode(location) == [kind |-> "QueryNode", location |-> location]

\* a MetricsNode whose threshold is a str, not a float
MetricsNodeTextThreshold(metric_type, text, location) ==
    [kind |-> "Metrics", metric_type |-> metric_type, threshold_text |-> text,
     location |-> location]

\* no node: nothing was passed, or nothing came back
NoQuery == [kind |-> "none"]

(***************************************************************************)
(* QueryOptimizer                                                          *)
(***************************************************************************)
\* _optimize_wildcards
OptimizeWildcards(pattern) ==
    LET p1 == Replace(pattern, ".*.*", ".*")
        p2 == IF StartsWith(p1, ".*") THEN From(p1, 3) ELSE p1
        p3 == IF EndsWith(p2, ".*") THEN SubSeq(p2, 1, Len(p2) - 2) ELSE p2
    IN  p3

\* the replacements dict of _optimize_char_classes, in insertion order
Replacements ==
    << <<"[0-9]", "\\d">>,
       <<"[^0-9]", "\\D">>,
       <<"[a-zA-Z0-9_]", "\\w">>,
       <<"[^a-zA-Z0-9_]", "\\W">>,
       <<"[ \\t\\n\\r\\f\\v]", "\\s">>,
       <<"[^ \\t\\n\\r\\f\\v]", "\\S">> >>

RECURSIVE ApplyReplacements(_, _)
ApplyReplacements(pattern, k) ==
    IF k > Len(Replacements) THEN pattern
    ELSE ApplyReplacements(Replace(pattern, Replacements[k][1], Replacements[k][2]), k + 1)

\* _optimize_char_classes
OptimizeCharClasses(pattern) == ApplyReplacements(pattern, 1)

\* _estimate_sanitizer_complexity
EstimateSanitizerComplexity(sanitizer) == Len(sanitizer) + Count(sanitizer, ".") * 2

\* list(dict.fromkeys(xs)): first occurrences, in order
RECURSIVE DictFromKeys(_)
DictFromKeys(xs) ==
    IF xs = <<>> THEN <<>>
    ELSE LET init == DictFromKeys(SubSeq(xs, 1, Len(xs) - 1))
             last == xs[Len(xs)]
         IN  IF \E i \in 1..Len(init) : init[i] = last THEN init ELSE Append(init, last)

\* insert x after every element whose key is <= key(x): one step of a stable sort
RECURSIVE InsertByKey(_, _)
InsertByKey(sorted, x) ==
    IF sorted = <<>> THEN <<x>>
    ELSE IF EstimateSanitizerComplexity(sorted[Len(sorted)]) <= EstimateSanitizerComplexity(x)
         THEN Append(sorted, x)
         ELSE Append(InsertByKey(SubSeq(sorted, 1, Len(sorted) - 1), x), sorted[Len(sorted)])

\* list.sort(key=_estimate_sanitizer_complexity): stable, ascending
RECURSIVE SortSanitizers(_)
SortSanitizers(xs) ==
    IF xs = <<>> THEN <<>>
    ELSE InsertByKey(SortSanitizers(SubSeq(xs, 1, Len(xs) - 1)), xs[Len(xs)])

PatternCacheKey(query) ==
    query.pattern \o ":" \o StrOpt(query.language) \o ":" \o StrBool(query.case_sensitive)

DataflowCacheKey(query) == query.source \o ":" \o query.sink

\* bool(query.sanitizers): None and [] are falsy
Truthy(sanitizers) == ~IsNone(sanitizers) /\ Val(sanitizers) # <<>>

\* the rewritten node _optimize_pattern_query builds on a cache miss
RewritePattern(query) ==
    PatternNode(OptimizeCharClasses(OptimizeWildcards(query.pattern)),
                query.language, query.case_sensitive, query.whole_word, query.location)

\* the sanitizers _optimize_dataflow_query computes on a cache miss
RewriteSanitizers(query) ==
    IF Truthy(query.sanitizers)
    THEN Some(SortSanitizers(DictFromKeys(Val(query.sanitizers))))
    ELSE None

\* _optimize_pattern_query: [ret, pattern_cache, dataflow_cache, arg], arg being
\* the argument as the call leaves it (its fields are read, never assigned)
OptimizePatternQuery(query, pc, dc) ==
    LET cache_key == PatternCacheKey(query)
    IN  IF cache_key \in DOMAIN pc
        THEN [ret |-> query, pattern_cache |-> pc, dataflow_cache |-> dc, raised |-> "none", arg |-> query]
        ELSE [ret |-> RewritePattern(query),
              pattern_cache |-> [k \in DOMAIN pc \cup {cache_key} |->
                                    IF k = cache_key THEN {} ELSE pc[k]],
              dataflow_cache |-> dc,
              raised |-> "none", arg |-> query]

\* _optimize_dataflow_query, were it to sort query.sanitizers in place
OptimizeDataflowQuerySortingArgument(query, pc, dc) ==
    LET cache_key == DataflowCacheKey(query)
        sanitizers == RewriteSanitizers(query)
        sorted == IF Truthy(query.sanitizers)
                  THEN Some(SortSanitizers(Val(query.sanitizers)))
                  ELSE query.sanitizers
    IN  IF cache_key \in DOMAIN dc
        THEN [ret |-> query, pattern_cache |-> pc, dataflow_cache |-> dc, raised |-> "none", arg |-> query]
        ELSE [ret |-> DataflowNode(query.source, query.sink, sanitizers, query.location),
              pattern_cache |-> pc,
              dataflow_cache |-> [k \in DOMAIN dc \cup {cache_key} |->
                                    IF k = cache_key
                                    THEN (IF IsNone(sanitizers) THEN <<>> ELSE Val(sanitizers))
                                    ELSE dc[k]],
              raised |-> "none",
              arg |-> DataflowNode(query.source, query.sink, sorted, query.location)]

\* _optimize_dataflow_query: list(dict.fromkeys(...)) is a new list, and it is
\* the new list that is sorted
OptimizeDataflowQuery(query, pc, dc) ==
    LET cache_key == DataflowCacheKey(query)
        sanitizers == RewriteSanitizers(query)
    IN  IF cache_key \in DOMAIN dc
        THEN [ret |-> query, pattern_cache |-> pc, dataflow_cache |-> dc, raised |-> "none", arg |-> query]
        ELSE [ret |-> DataflowNode(query.source, query.sink, sanitizers, query.location),
              pattern_cache |-> pc,
              dataflow_cache |-> [k \in DOMAIN dc \cup {cache_key} |->
                                    IF k = cache_key
                                    THEN (IF IsNone(sanitizers) THEN <<>> ELSE Val(sanitizers))
                                    ELSE dc[k]],
              raised |-> "none", arg |-> query]

\* round(threshold, 3) of a threshold held in 1/10000: to the nearest 1/1000
\* (no threshold of the model lies halfway)
Round3(t) == ((t + 5) \div 10) * 10

\* _optimize_metrics_query; round() of a str is a TypeError
OptimizeMetricsQuery(query, pc, dc) ==
    IF "threshold" \notin DOMAIN query
    THEN [ret |-> NoQuery, pattern_cache |-> pc, dataflow_cache |-> dc,
          raised |-> "TypeError", arg |-> query]
    ELSE [ret |-> MetricsNode(Lower(query.metric_type),
                              IF IsNone(query.threshold) THEN None
                              ELSE Some(Round3(Val(query.threshold))),
                              query.location),
          pattern_cache |-> pc, dataflow_cache |-> dc, raised |-> "none", arg |-> query]

\* optimize(), were what a branch raises let through
OptimizeUnwrapped(query, pc, dc) ==
    IF query.kind = "Pattern" THEN OptimizePatternQuery(query, pc, dc)
    ELSE IF query.kind = "Dataflow" THEN OptimizeDataflowQuery(query, pc, dc)
    ELSE IF query.kind = "Metrics" THEN OptimizeMetricsQuery(query, pc, dc)
    ELSE [ret |-> query, pattern_cache |-> pc, dataflow_cache |-> dc,
          raised |-> "none", arg |-> query]

\* QueryOptimizer.optimize on an optimizer whose caches are pc and dc: whatever
\* the branch raises leaves as QueryOptimizationError
Optimize(query, pc, dc) ==
    LET r == OptimizeUnwrapped(query, pc, dc)
    IN  IF r.raised = "none" THEN r ELSE [r EXCEPT !.raised = "QueryOptimizationError"]

\* QueryOptimizer.__init__: both caches empty
EmptyCache == [k \in {} |-> {}]

\* optimize() on a newly constructed optimizer
FreshOptimize(query) == Optimize(query, EmptyCache, EmptyCache).ret

(***************************************************************************)
(* Queries handed to the optimizer.                                        *)
(***************************************************************************)
WildFrags == {".*", "a"}

RECURSIVE Concats(_, _)
Concats(frags, n) ==
    IF n = 0 THEN {""}
    ELSE LET shorter == Concats(frags, n - 1)
         IN  shorter \cup {t \o f : t \in shorter, f \in frags}

\* patterns of the optimizer tests, and one per entry of the replacements dict
ClassTexts ==
    {"[0-9]+", ".*[a-zA-Z0-9_]+.*", "[^0-9]a", "[^a-zA-Z0-9_]", "[ \\t\\n\\r\\f\\v]*",
     "[^ \\t\\n\\r\\f\\v]", "\\d", "a\\.*"}

OptTexts == Concats(WildFrags, MaxFrag) \cup ClassTexts

SanitizerLists ==
    {None, Some(<<>>), Some(<<"chk">>), Some(<<"a.b", "esc", "chk">>),
     Some(<<"esc", "chk", "esc">>), Some(<<"chk", "chk", "a.b", "a.b">>)}

\* thresholds in 1/10000: 10.1234, 5.6789, 1.0, 1.9996
Thresholds == {None, Some(101234), Some(56789), Some(10000), Some(19996)}

OptQueries ==
    {PatternNode(t, None, TRUE, FALSE, None) : t \in OptTexts}
    \cup {PatternNode(t, l, c, w, None) :
             t \in {".*a.*"}, l \in {None, Some("python")}, c \in BOOLEAN, w \in BOOLEAN}
    \cup {DataflowNode("a", "b", s, None) : s \in SanitizerLists}
    \cup {MetricsNode(m, t, None) : m \in {"complexity", "COMPLEXITY", "loc"}, t \in Thresholds}
    \cup {QueryNode(None)}

\* queries of the optimizer sessions: pairs that share a cache signature, and
\* pairs that do not
SessionQueries ==
    {PatternNode(t, None, c, w, None) : t \in {".*a.*", "a", "[0-9]"}, c \in BOOLEAN, w \in BOOLEAN}
    \cup {DataflowNode("a", k, s, None) :
             k \in {"b", "c"}, s \in {None, Some(<<"a.b", "chk">>), Some(<<"chk", "a.b">>)}}
    \cup {DataflowNode("a:b", "c", Some(<<"a.b", "chk">>), None),
          DataflowNode("a", "b:c", Some(<<"chk">>), None),
          PatternNode(".*a.*", Some("None"), TRUE, FALSE, None)}
    \cup {MetricsNode("LOC", Some(56789), None), QueryNode(None)}

(***************************************************************************)
(* The optimizer as a state machine.                                       *)
(***************************************************************************)
NoRegex == [ok |-> FALSE, nodes |-> <<>>, ignorecase |-> FALSE]

\* the state of a call before its generator is first advanced
CallPending ==
    /\ status = "Pending"
    /\ raised = "none"
    /\ yielded = <<>>
    /\ phase = "start"
    /\ call_regex = NoRegex
    /\ futures = <<>>
    /\ pending = <<>>
    /\ source_results = <<>>
    /\ sink_results = <<>>
    /\ idx = 1
    /\ jdx = 1
    /\ elapsed = 0
    /\ late_work = FALSE

\* an executor on which execute() has not been called
ExecutorIdle ==
    /\ call_query = NoQuery
    /\ call_paths = <<>>
    /\ max_workers = DefaultMaxWorkers
    /\ timeout = TimeoutTicks
    /\ result_cache = EmptyCache
    /\ CallPending
    /\ call_no = 0
    /\ relation = "none"
    /\ prev_yielded = <<>>
    /\ prev_raised = "none"

\* a parser on which parse() has not been called
NotParsed == [raised |-> "none", node |-> NoQuery]

ParserIdle ==
    /\ parse_text = ""
    /\ parse_grammar = "text"
    /\ parse_ret = NotParsed

\* the cache signature of a query: the fields its cache key is built from
Signature(query) ==
    IF query.kind = "Pattern"
    THEN {<<"Pattern", query.pattern, query.language, query.case_sensitive>>}
    ELSE IF query.kind = "Dataflow" THEN {<<"Dataflow", query.source, query.sink>>}
    ELSE {}

\* QueryOptimizer.__init__
OptimizerNew ==
    /\ pattern_cache = EmptyCache
    /\ dataflow_cache = EmptyCache
    /\ opt_query = NoQuery
    /\ opt_ret = NoQuery
    /\ opt_calls = 0
    /\ opt_fed = FALSE
    /\ opt_seen = {}
    /\ opt_arg = NoQuery
    /\ opt_raised = "none"

InitOptimizer == OptimizerNew /\ ExecutorIdle /\ ParserIdle

\* one optimize(query) call
DoOptimize(query, fed) ==
    LET r == Optimize(query, pattern_cache, dataflow_cache)
    IN  /\ pattern_cache' = r.pattern_cache
        /\ dataflow_cache' = r.dataflow_cache
        /\ opt_query' = query
        /\ opt_ret' = r.ret
        /\ opt_calls' = opt_calls + 1
        /\ opt_fed' = fed
        /\ opt_seen' = opt_seen \cup Signature(query)
        /\ opt_arg' = r.arg
        /\ opt_raised' = r.raised
        /\ UNCHANGED <<execVars, parseVars>>

\* optimize(q) for a query of a session
OptimizeCall ==
    /\ opt_calls < MaxCalls
    /\ \E q \in SessionQueries : DoOptimize(q, FALSE)

\* optimize(q) as the first call on a new optimizer
OptimizeFirst ==
    /\ opt_calls = 0
    /\ \E q \in OptQueries : DoOptimize(q, FALSE)

\* optimize(optimize(q)): the previous return value is optimized again
OptimizeAgain ==
    /\ opt_calls >= 1
    /\ opt_calls < MaxCalls
    /\ opt_raised = "none"
    /\ DoOptimize(opt_ret, TRUE)

\* clear_caches()
ClearCaches ==
    /\ opt_calls >= 1
    /\ pattern_cache' = EmptyCache
    /\ dataflow_cache' = EmptyCache
    /\ opt_calls' = 0
    /\ opt_seen' = {}
    /\ UNCHANGED <<opt_query, opt_ret, opt_fed, opt_arg, opt_raised>>
    /\ UNCHANGED <<execVars, parseVars>>

NextOptimizer == OptimizeCall \/ OptimizeAgain \/ ClearCaches

\* sessions of optimize() and clear_caches() calls on one optimizer
SpecOptimizer == InitOptimizer /\ [][NextOptimizer]_vars

NextRewrite == OptimizeFirst \/ OptimizeAgain

\* optimize(q) then optimize(optimize(q)) on a new optimizer, for every q
SpecRewrite == InitOptimizer /\ [][NextRewrite]_vars

(***************************************************************************)
(* Python's re module, for the syntax the queries of the model use:        *)
(* literals, '.', the classes of the replacements dict and their           *)
(* shorthands, '\b', escaped punctuation, and the greedy '*'.              *)
(***************************************************************************)
Digits == "0123456789"
IsDigit(c) == \E i \in 1..Len(Digits) : Ch(Digits, i) = c
IsLetter(c) == \E i \in 1..Len(LowerLetters) : Ch(LowerLetters, i) = c \/ Ch(UpperLetters, i) = c
IsWord(c) == IsDigit(c) \/ IsLetter(c) \/ c = "_"
IsSpace(c) == c \in {" ", "\t", "\n", "\r", "\f"}

\* bracket expressions re.compile is given, and the class each denotes
BracketClasses ==
    << <<"[0-9]", "d">>, <<"[^0-9]", "D">>, <<"[a-zA-Z0-9_]", "w">>,
       <<"[^a-zA-Z0-9_]", "W">>, <<"[ \\t\\n\\r\\f\\v]", "s">>, <<"[^ \\t\\n\\r\\f\\v]", "S">> >>

ReNode(t, c) == [t |-> t, c |-> c, star |-> FALSE]
ReError == [ok |-> FALSE, nodes |-> <<>>]

\* sre_parse: the pattern text from position i on, after the nodes acc
RECURSIVE ParseRe(_, _, _)
ParseRe(p, i, acc) ==
    IF i > Len(p) THEN [ok |-> TRUE, nodes |-> acc]
    ELSE LET c == Ch(p, i) IN
      IF c = "*"
      THEN IF acc = <<>> \/ acc[Len(acc)].star \/ acc[Len(acc)].t = "b"
           THEN ReError   \* nothing to repeat, multiple repeat
           ELSE ParseRe(p, i + 1, [acc EXCEPT ![Len(acc)].star = TRUE])
      ELSE IF c = "\\"
      THEN IF i = Len(p) THEN ReError   \* bad escape (end of pattern)
           ELSE LET e == Ch(p, i + 1) IN
                IF e \in {"d", "D", "w", "W", "s", "S", "b"}
                THEN ParseRe(p, i + 2, Append(acc, ReNode(e, "")))
                ELSE IF IsLetter(e) \/ IsDigit(e) THEN ReError   \* bad escape
                ELSE ParseRe(p, i + 2, Append(acc, ReNode("lit", e)))
      ELSE IF c = "["
      THEN IF \E k \in 1..Len(BracketClasses) : StartsWith(From(p, i), BracketClasses[k][1])
           THEN LET k == CHOOSE k \in 1..Len(BracketClasses) :
                            StartsWith(From(p, i), BracketClasses[k][1])
                IN  ParseRe(p, i + Len(BracketClasses[k][1]),
                            Append(acc, ReNode(BracketClasses[k][2], "")))
           ELSE ReError   \* unterminated character set
      ELSE IF c = "."
      THEN ParseRe(p, i + 1, Append(acc, ReNode("any", "")))
      ELSE ParseRe(p, i + 1, Append(acc, ReNode("lit", c)))

\* re.compile(pattern, flags): ok is FALSE where it raises re.error
ReCompile(pattern, ignorecase) ==
    LET r == ParseRe(pattern, 1, <<>>)
    IN  [ok |-> r.ok, nodes |-> r.nodes, ignorecase |-> ignorecase]

\* one pattern node against one character
AtomMatches(node, c, ignorecase) ==
    CASE node.t = "lit" -> IF ignorecase THEN LowerCh(c) = LowerCh(node.c) ELSE c = node.c
      [] node.t = "any" -> c # "\n"
      [] node.t = "d" -> IsDigit(c)
      [] node.t = "D" -> ~IsDigit(c)
      [] node.t = "w" -> IsWord(c)
      [] node.t = "W" -> ~IsWord(c)
      [] node.t = "s" -> IsSpace(c)
      [] node.t = "S" -> ~IsSpace(c)
      [] OTHER -> FALSE

\* \b at position pos of s: a word character on exactly one side
AtBoundary(s, pos) ==
    LET before == pos > 1 /\ IsWord(Ch(s, pos - 1))
        after == pos <= Len(s) /\ IsWord(Ch(s, pos))
    IN  before # after

\* the longest run of characters from pos that node matches
RECURSIVE MaxRun(_, _, _, _)
MaxRun(node, s, pos, ignorecase) ==
    IF pos <= Len(s) /\ AtomMatches(node, Ch(s, pos), ignorecase)
    THEN 1 + MaxRun(node, s, pos + 1, ignorecase)
    ELSE 0

\* the backtracking matcher: the position after the first match of nodes k..
\* found from pos, 0 if there is none; a match that must advance may not end
\* where the search started
RECURSIVE ReMatch(_, _, _, _, _, _)
RECURSIVE TryStar(_, _, _, _, _, _, _)
ReMatch(re, k, s, pos, start, must_advance) ==
    IF k > Len(re.nodes)
    THEN IF must_advance /\ pos = start THEN 0 ELSE pos
    ELSE LET node == re.nodes[k] IN
      IF node.t = "b"
      THEN IF AtBoundary(s, pos) THEN ReMatch(re, k + 1, s, pos, start, must_advance) ELSE 0
      ELSE IF node.star
      THEN TryStar(re, k, s, pos, start, must_advance, MaxRun(node, s, pos, re.ignorecase))
      ELSE IF pos <= Len(s) /\ AtomMatches(node, Ch(s, pos), re.ignorecase)
           THEN ReMatch(re, k + 1, s, pos + 1, start, must_advance)
           ELSE 0

TryStar(re, k, s, pos, start, must_advance, n) ==
    LET r == ReMatch(re, k + 1, s, pos + n, start, must_advance)
    IN  IF r # 0 THEN r
        ELSE IF n = 0 THEN 0
        ELSE TryStar(re, k, s, pos, start, must_advance, n - 1)

\* pattern.finditer(s) from pos: <<start, end>> of each match, end exclusive
RECURSIVE FindIter(_, _, _, _)
FindIter(re, s, pos, must_advance) ==
    LET ok(st) == ReMatch(re, 1, s, st, st, must_advance /\ st = pos) # 0
    IN  IF \E st \in pos..(Len(s) + 1) : ok(st)
        THEN LET st == CHOOSE st \in pos..(Len(s) + 1) :
                          ok(st) /\ \A u \in pos..(st - 1) : ~ok(u)
                 e == ReMatch(re, 1, s, st, st, must_advance /\ st = pos)
             IN  <<<<st, e>>>> \o FindIter(re, s, e, e = st)
        ELSE <<>>

(***************************************************************************)
(* The files a call is run against.  Each entry says whether open() raises *)
(* (a missing path, a directory), which lines decode, and whether reading  *)
(* raises after them (a byte sequence that is not UTF-8 further on).       *)
(***************************************************************************)
File(open_fails, lines, read_fails) ==
    [open_fails |-> open_fails, lines |-> lines, read_fails |-> read_fails]

Paths == {"a.py", "b.java", "c.txt", "gone.py", "bad.py"}

FileSystem ==
    [p \in Paths |->
        CASE p = "a.py" -> File(FALSE, <<"a1 if\n", "chk\n", "ab a\n">>, FALSE)
          [] p = "b.java" -> File(FALSE, <<"a\n", "#\n", "b or b">>, FALSE)
          [] p = "c.txt" -> File(FALSE, <<"a b\n">>, FALSE)
          [] p = "gone.py" -> File(TRUE, <<>>, FALSE)
          [] p = "bad.py" -> File(FALSE, <<"a\n">>, TRUE)]

\* Path.suffix of a path that is a bare file name
Suffix(path) ==
    LET dots == {i \in 2..(Len(path) - 1) : Ch(path, i) = "."}
    IN  IF dots = {} THEN ""
        ELSE From(path, CHOOSE i \in dots : \A j \in dots : j <= i)

\* MockExtractor.supports_file of the executor tests
MockExtractor == [extensions |-> {".py", ".java"}]
SupportsFile(ext, path) == Suffix(path) \in ext.extensions

\* the extractors the executor is constructed with
Extractors == <<MockExtractor>>

\* language_map of _should_process_file
LanguageMap ==
    [e \in {".py", ".js", ".java", ".cpp", ".c"} |->
        CASE e = ".py" -> "python"
          [] e = ".js" -> "javascript"
          [] e = ".java" -> "java"
          [] e = ".cpp" -> "cpp"
          [] e = ".c" -> "c"]

\* _should_process_file, were the language requirement not looked at
ShouldProcessFileAnyLanguage(path, required_language) ==
    \E i \in 1..Len(Extractors) : SupportsFile(Extractors[i], path)

\* _should_process_file
ShouldProcessFile(path, required_language) ==
    LET supported == \E i \in 1..Len(Extractors) : SupportsFile(Extractors[i], path)
    IN  IF ~supported THEN FALSE
        ELSE IF ~IsNone(required_language) /\ Val(required_language) # ""
        THEN LET extension == Lower(Suffix(path))
             IN  /\ extension \in DOMAIN LanguageMap
                 /\ LanguageMap[extension] = Lower(Val(required_language))
        ELSE TRUE

\* str.strip()
RECURSIVE LStrip(_)
LStrip(s) == IF s # "" /\ IsSpace(Ch(s, 1)) THEN LStrip(From(s, 2)) ELSE s
RECURSIVE RStrip(_)
RStrip(s) ==
    IF s # "" /\ IsSpace(Ch(s, Len(s))) THEN RStrip(SubSeq(s, 1, Len(s) - 1)) ELSE s
Strip(s) == RStrip(LStrip(s))

\* str(n) of a natural number
RECURSIVE IntToStr(_)
IntToStr(n) ==
    IF n < 10 THEN Ch(Digits, n + 1)
    ELSE IntToStr(n \div 10) \o Ch(Digits, (n % 10) + 1)

QueryResult(file_path, line_number, column, snippet, confidence, metadata) ==
    [file_path |-> file_path, line_number |-> line_number, column |-> column,
     snippet |-> snippet, confidence |-> confidence, metadata |-> metadata]

\* the results _search_file appends for line i
LineResults(file_path, i, line, pattern) ==
    LET ms == FindIter(pattern, line, 1, FALSE)
    IN  [k \in 1..Len(ms) |->
            QueryResult(file_path, i, ms[k][1], Strip(line), "1.0",
                        [match |-> SubSeq(line, ms[k][1], ms[k][2] - 1)])]

\* the loop of _search_file, were each line's results put in front of the list
RECURSIVE SearchLinesPrepending(_, _, _, _)
SearchLinesPrepending(file_path, lines, i, pattern) ==
    IF i > Len(lines) THEN <<>>
    ELSE SearchLinesPrepending(file_path, lines, i + 1, pattern)
            \o LineResults(file_path, i, lines[i], pattern)

RECURSIVE SearchLines(_, _, _, _)
SearchLines(file_path, lines, i, pattern) ==
    IF i > Len(lines) THEN <<>>
    ELSE LineResults(file_path, i, lines[i], pattern)
            \o SearchLines(file_path, lines, i + 1, pattern)

\* _search_file: the results list is returned whether or not the read raised
SearchFile(file_path, pattern) ==
    LET f == FileSystem[file_path]
    IN  IF f.open_fails THEN <<>> ELSE SearchLines(file_path, f.lines, 1, pattern)

\* _find_pattern over the paths from position k on, for a compiled regex
RECURSIVE FindPattern(_, _, _)
FindPattern(regex, target_paths, k) ==
    IF k > Len(target_paths) THEN <<>>
    ELSE (IF ShouldProcessFile(target_paths[k], None)
          THEN SearchFile(target_paths[k], regex) ELSE <<>>)
            \o FindPattern(regex, target_paths, k + 1)

\* _is_sanitized, were the slice readlines()[source.line_number:sink.line_number-1]
IsSanitizedBetween(source, sink, sanitizer) ==
    LET f == FileSystem[source.file_path]
    IN  IF f.open_fails \/ f.read_fails THEN FALSE
        ELSE \E i \in (source.line_number + 1)..(sink.line_number - 1) :
                i <= Len(f.lines) /\ Contains(f.lines[i], sanitizer)

\* _is_sanitized: readlines()[source.line_number-1:sink.line_number]
IsSanitized(source, sink, sanitizer) ==
    LET f == FileSystem[source.file_path]
    IN  IF f.open_fails \/ f.read_fails THEN FALSE
        ELSE \E i \in source.line_number..sink.line_number :
                i <= Len(f.lines) /\ Contains(f.lines[i], sanitizer)

\* _check_dataflow
CheckDataflow(source, sink, sanitizers) ==
    IF source.file_path = sink.file_path /\ source.line_number < sink.line_number
    THEN IF Truthy(sanitizers)
         THEN ~\E k \in 1..Len(Val(sanitizers)) : IsSanitized(source, sink, Val(sanitizers)[k])
         ELSE TRUE
    ELSE FALSE

\* the QueryResult _execute_dataflow_query yields for a pair
DataflowResult(source, sink) ==
    QueryResult(source.file_path, source.line_number, source.column,
                "Dataflow from " \o source.snippet \o " to " \o sink.snippet, "0.8",
                [source |-> source.snippet, sink |-> sink.snippet,
                 sink_line |-> sink.line_number])

RECURSIVE Join(_, _)
Join(lines, i) == IF i > Len(lines) THEN "" ELSE lines[i] \o Join(lines, i + 1)

\* the decision keywords of r'\b(if|while|for|and|or)\b'
DecisionKeywords == {"if", "while", "for", "and", "or"}

\* len(re.findall(r'\b(if|while|for|and|or)\b', content)): the words of
\* content that are decision keywords
DecisionPoints(content) ==
    Cardinality({i \in 1..Len(content) :
        \E kw \in DecisionKeywords :
            /\ StartsWith(From(content, i), kw)
            /\ ~(i > 1 /\ IsWord(Ch(content, i - 1)))
            /\ ~(i + Len(kw) <= Len(content) /\ IsWord(Ch(content, i + Len(kw))))})

\* content.split('\n')
RECURSIVE SplitLines(_, _)
SplitLines(content, cur) ==
    IF content = "" THEN <<cur>>
    ELSE IF Ch(content, 1) = "\n" THEN <<cur>> \o SplitLines(From(content, 2), "")
    ELSE SplitLines(From(content, 2), cur \o Ch(content, 1))

\* _calculate_metric: [raised, value]; every exception leaves it as
\* QueryExecutionError
CalculateMetric(file_path, metric_type) ==
    LET f == FileSystem[file_path]
        content == Join(f.lines, 1)
        lines == SplitLines(content, "")
    IN  IF f.open_fails \/ f.read_fails THEN [raised |-> TRUE, value |-> 0]
        ELSE IF metric_type = "complexity"
        THEN [raised |-> FALSE, value |-> 1 + DecisionPoints(content)]
        ELSE IF metric_type = "loc"
        THEN [raised |-> FALSE,
              value |-> Cardinality({i \in 1..Len(lines) :
                           Strip(lines[i]) # "" /\ ~StartsWith(Strip(lines[i]), "#")})]
        ELSE [raised |-> TRUE, value |-> 0]

\* the comparison, were it metric_value >= query.threshold
ReachesThreshold(metric_value, threshold) == metric_value * 10000 >= threshold

\* metric_value > query.threshold, the threshold in 1/10000
ExceedsThreshold(metric_value, threshold) == metric_value * 10000 > threshold

\* the QueryResult _execute_metrics_query yields
MetricsResult(path, metric_type, metric_value) ==
    QueryResult(path, 1, 1, metric_type \o ": " \o IntToStr(metric_value), "1.0",
                [value |-> metric_value])

(***************************************************************************)
(* Queries and file lists handed to the executor.                          *)
(***************************************************************************)
ExecPatternQueries ==
    {PatternNode(t, None, TRUE, FALSE, None) : t \in {"a", ".*a.*", "[0-9]", ".*", "*a"}}
    \cup {PatternNode("A", None, FALSE, FALSE, None), PatternNode("a", None, TRUE, TRUE, None),
          PatternNode("a", Some("python"), TRUE, FALSE, None),
          PatternNode("a", Some("JAVA"), TRUE, FALSE, None)}

ExecDataflowQueries ==
    {DataflowNode("a", "b", s, None) :
        s \in {None, Some(<<"chk">>), Some(<<"a.b", "chk", "chk">>), Some(<<"or">>)}}
    \cup {DataflowNode("a", "*", None, None)}

\* thresholds 2.0 and 1.9996
ExecMetricsQueries ==
    {MetricsNode("complexity", None, None), MetricsNode("loc", Some(20000), None),
     MetricsNode("complexity", Some(19996), None), MetricsNode("COMPLEXITY", None, None),
     MetricsNode("halstead", None, None)}

ExecQueries ==
    ExecPatternQueries \cup ExecDataflowQueries \cup ExecMetricsQueries \cup {QueryNode(None)}

\* lists of distinct paths, up to n long
RECURSIVE PathLists(_)
PathLists(n) ==
    IF n = 0 THEN {<<>>}
    ELSE LET shorter == PathLists(n - 1)
         IN  shorter \cup {Append(l, p) : l \in {m \in shorter : Len(m) = n - 1},
                                          p \in Paths}

FileLists == {l \in PathLists(MaxFiles) : \A i, j \in 1..Len(l) : i # j => l[i] # l[j]}

(***************************************************************************)
(* What the calls of the model compile, search and measure, computed once  *)
(* for every argument a call can pass.                                     *)
(***************************************************************************)
\* the queries a call is given: those above, and what optimize() makes of them
CallQueries == ExecQueries \cup {FreshOptimize(q) : q \in ExecQueries}

\* the text _execute_pattern_query hands to re.compile
PatternText(query) ==
    IF query.whole_word THEN "\\b" \o query.pattern \o "\\b" ELSE query.pattern

\* the <<pattern, ignorecase>> pairs the calls compile
CompileArgs ==
    {<<PatternText(q), ~q.case_sensitive>> : q \in {q \in CallQueries : q.kind = "Pattern"}}
    \cup {<<q.source, FALSE>> : q \in {q \in CallQueries : q.kind = "Dataflow"}}
    \cup {<<q.sink, FALSE>> : q \in {q \in CallQueries : q.kind = "Dataflow"}}

\* f with every value worked out: f @@ g is f wherever f is defined
Table(f) == f @@ <<>>

\* re.compile(pattern, flags)
Compiled == Table([a \in CompileArgs |-> ReCompile(a[1], a[2])])

\* _search_file(path, regex)
Searched ==
    Table([a \in Paths \X {Compiled[c] : c \in {c \in CompileArgs : Compiled[c].ok}} |->
              SearchFile(a[1], a[2])])

\* _calculate_metric(path, metric_type)
Calculated ==
    Table([a \in Paths \X {q.metric_type : q \in {q \in CallQueries : q.kind = "Metrics"}} |->
              CalculateMetric(a[1], a[2])])

(***************************************************************************)
(* QueryExecutor.execute as a state machine: the caller advances the       *)
(* generator, the pool's workers run beside it, and the clock ticks.       *)
(***************************************************************************)
InitExecutor ==
    /\ OptimizerNew
    /\ ParserIdle
    /\ call_query \in ExecQueries
    /\ call_paths \in FileLists
    /\ max_workers \in (IF call_query.kind = "Pattern" THEN 1..MaxWorkers ELSE {DefaultMaxWorkers})
    /\ timeout = TimeoutTicks
    /\ result_cache = EmptyCache
    /\ CallPending
    /\ call_no = 1
    /\ relation = "none"
    /\ prev_yielded = <<>>
    /\ prev_raised = "none"

Terminal == {"Completed", "Failed", "TimedOut"}

\* a per-file unit starts now: was the budget used up?
StartsUnit == late_work' = (late_work \/ elapsed >= timeout)

\* execute(): except Exception as e: raise QueryExecutionError(...)
Fail ==
    /\ status' = "Failed"
    /\ raised' = "QueryExecutionError"
    /\ phase' = "end"
    /\ yielded' = yielded

\* Complete, were the results handed over so far dropped on return
CompleteDropsResults ==
    /\ status' = "Completed"
    /\ phase' = "end"
    /\ yielded' = <<>>

\* the generator returns
Complete ==
    /\ status' = "Completed"
    /\ phase' = "end"
    /\ yielded' = yielded

\* the caller advances the generator for the first time: execute() starts to run
Start ==
    /\ status = "Pending" /\ call_no >= 1
    /\ status' = "Running"
    /\ phase' = "dispatch"
    /\ UNCHANGED <<raised, yielded, call_regex, futures, pending,
                   source_results, sink_results, idx, jdx>>
    /\ UNCHANGED <<parseVars, optVars, argVars, clockVars, callVars>>

\* the units _execute_pattern_query submits: one per path that passes
\* _should_process_file, in list order
RECURSIVE Submitted(_, _, _)
Submitted(paths, k, language) ==
    IF k > Len(paths) THEN <<>>
    ELSE (IF ShouldProcessFile(paths[k], language)
          THEN <<[path |-> paths[k], state |-> "queued", results |-> <<>>]>>
          ELSE <<>>) \o Submitted(paths, k + 1, language)

\* execute() on a PatternNode: compile, submit every unit
BeginPattern ==
    /\ phase = "dispatch"
    /\ call_query.kind = "Pattern"
    /\ LET re == Compiled[<<PatternText(call_query), ~call_query.case_sensitive>>]
       IN  IF re.ok
           THEN /\ phase' = "pool"
                /\ call_regex' = re
                /\ futures' = Submitted(call_paths, 1, call_query.language)
                /\ UNCHANGED <<status, raised, yielded>>
           ELSE Fail /\ UNCHANGED <<call_regex, futures>>
    /\ UNCHANGED <<pending, source_results, sink_results, idx, jdx>>
    /\ UNCHANGED <<parseVars, optVars, argVars, clockVars, callVars>>

Running(i) == futures[i].state = "running"

\* a pool that starts a thread for a queued unit whatever the number running
IdleWorkerUnbounded == TRUE

\* a pool that keeps one thread fewer than max_workers
IdleWorkerOneFewer == Cardinality({i \in 1..Len(futures) : Running(i)}) < max_workers - 1

\* ThreadPoolExecutor(max_workers=self.max_workers): a thread is free
IdleWorker == Cardinality({i \in 1..Len(futures) : Running(i)}) < max_workers

\* an idle worker thread takes the oldest queued unit
WorkerStart ==
    /\ phase = "pool"
    /\ IdleWorker
    /\ \E i \in 1..Len(futures) :
        /\ futures[i].state = "queued"
        /\ \A j \in 1..(i - 1) : futures[j].state # "queued"
        /\ futures' = [futures EXCEPT ![i].state = "running"]
    /\ StartsUnit
    /\ UNCHANGED <<status, raised, yielded, phase, call_regex, pending,
                   source_results, sink_results, idx, jdx>>
    /\ UNCHANGED <<parseVars, optVars, argVars, elapsed, callVars>>

\* a worker's _search_file returns
WorkerFinish ==
    /\ phase = "pool"
    /\ \E i \in 1..Len(futures) :
        /\ Running(i)
        /\ futures' = [futures EXCEPT ![i].state = "done",
                                      ![i].results = Searched[<<futures[i].path, call_regex>>]]
    /\ UNCHANGED <<status, raised, yielded, phase, call_regex, pending,
                   source_results, sink_results, idx, jdx>>
    /\ UNCHANGED <<parseVars, optVars, argVars, clockVars, callVars>>

\* Collect, were the futures finished at the same moment handed over as one
CollectOneOfTheFinished ==
    /\ phase = "pool"
    /\ pending = <<>>
    /\ \E i \in 1..Len(futures) :
        /\ futures[i].state = "done"
        /\ futures' = [k \in 1..Len(futures) |->
                          IF futures[k].state = "done"
                          THEN [futures[k] EXCEPT !.state = "taken"] ELSE futures[k]]
        /\ pending' = futures[i].results
    /\ UNCHANGED <<status, raised, yielded, phase, call_regex,
                   source_results, sink_results, idx, jdx>>
    /\ UNCHANGED <<parseVars, optVars, argVars, clockVars, callVars>>

\* as_completed hands over a finished future; future.result() is its list
Collect ==
    /\ phase = "pool"
    /\ pending = <<>>
    /\ \E i \in 1..Len(futures) :
        /\ futures[i].state = "done"
        /\ futures' = [futures EXCEPT ![i].state = "taken"]
        /\ pending' = futures[i].results
    /\ UNCHANGED <<status, raised, yielded, phase, call_regex,
                   source_results, sink_results, idx, jdx>>
    /\ UNCHANGED <<parseVars, optVars, argVars, clockVars, callVars>>

\* for result in results: yield result
YieldPattern ==
    /\ phase = "pool"
    /\ pending # <<>>
    /\ yielded' = Append(yielded, Head(pending))
    /\ pending' = Tail(pending)
    /\ UNCHANGED <<status, raised, phase, call_regex, futures,
                   source_results, sink_results, idx, jdx>>
    /\ UNCHANGED <<parseVars, optVars, argVars, clockVars, callVars>>

\* every future is collected: the pool is shut down and the generator returns
FinishPattern ==
    /\ phase = "pool"
    /\ pending = <<>>
    /\ \A i \in 1..Len(futures) : futures[i].state = "taken"
    /\ Complete
    /\ UNCHANGED <<raised, call_regex, futures, pending,
                   source_results, sink_results, idx, jdx>>
    /\ UNCHANGED <<parseVars, optVars, argVars, clockVars, callVars>>

\* execute() on a DataflowNode: _find_pattern compiles the source pattern
BeginDataflow ==
    /\ phase = "dispatch"
    /\ call_query.kind = "Dataflow"
    /\ LET re == Compiled[<<call_query.source, FALSE>>]
       IN  IF re.ok
           THEN /\ phase' = "source"
                /\ call_regex' = re
                /\ UNCHANGED <<status, raised, yielded>>
           ELSE Fail /\ UNCHANGED call_regex
    /\ UNCHANGED <<futures, pending, source_results, sink_results, idx, jdx>>
    /\ UNCHANGED <<parseVars, optVars, argVars, clockVars, callVars>>

\* what _find_pattern yields for the path at the cursor
ScanAtCursor ==
    IF ShouldProcessFile(call_paths[idx], None)
    THEN Searched[<<call_paths[idx], call_regex>>] ELSE <<>>

\* _find_pattern, were the results of a later path put before the earlier ones
ScanNextPrepending(results) == ScanAtCursor \o results

\* list(...) takes what _find_pattern yields, path after path in list order
ScanNext(results) == results \o ScanAtCursor

\* list(self._find_pattern(query.source, target_paths)): the next path
ScanSource ==
    /\ phase = "source"
    /\ idx <= Len(call_paths)
    /\ source_results' = ScanNext(source_results)
    /\ idx' = idx + 1
    /\ StartsUnit
    /\ UNCHANGED <<status, raised, yielded, phase, call_regex, futures, pending,
                   sink_results, jdx>>
    /\ UNCHANGED <<parseVars, optVars, argVars, elapsed, callVars>>

\* the source scan is over: _find_pattern compiles the sink pattern
BeginSinks ==
    /\ phase = "source"
    /\ idx > Len(call_paths)
    /\ LET re == Compiled[<<call_query.sink, FALSE>>]
       IN  IF re.ok
           THEN /\ phase' = "sink"
                /\ call_regex' = re
                /\ idx' = 1
                /\ UNCHANGED <<status, raised, yielded>>
           ELSE Fail /\ UNCHANGED <<call_regex, idx>>
    /\ UNCHANGED <<futures, pending, source_results, sink_results, jdx>>
    /\ UNCHANGED <<parseVars, optVars, argVars, clockVars, callVars>>

\* list(self._find_pattern(query.sink, target_paths)): the next path
ScanSink ==
    /\ phase = "sink"
    /\ idx <= Len(call_paths)
    /\ sink_results' = ScanNext(sink_results)
    /\ idx' = idx + 1
    /\ StartsUnit
    /\ UNCHANGED <<status, raised, yielded, phase, call_regex, futures, pending,
                   source_results, jdx>>
    /\ UNCHANGED <<parseVars, optVars, argVars, elapsed, callVars>>

\* both scans are over: the nested loop over the pairs starts
BeginPairs ==
    /\ phase = "sink"
    /\ idx > Len(call_paths)
    /\ phase' = "pairs"
    /\ idx' = 1
    /\ jdx' = 1
    /\ UNCHANGED <<status, raised, yielded, call_regex, futures, pending,
                   source_results, sink_results>>
    /\ UNCHANGED <<parseVars, optVars, argVars, clockVars, callVars>>

\* the pairs the nested loop has still to visit for which _check_dataflow
\* holds, as <<source index, sink index>>
FlowsAhead ==
    {ij \in (1..Len(source_results)) \X (1..Len(sink_results)) :
        /\ ij[1] > idx \/ (ij[1] = idx /\ ij[2] >= jdx)
        /\ CheckDataflow(source_results[ij[1]], sink_results[ij[2]], call_query.sanitizers)}

\* the order in which the nested loop visits the pairs: sources outermost
Before(a, b) == a[1] < b[1] \/ (a[1] = b[1] /\ a[2] <= b[2])

\* the loop runs on to the next pair with a dataflow path and yields it
YieldDataflow ==
    /\ phase = "pairs"
    /\ FlowsAhead # {}
    /\ LET ij == CHOOSE a \in FlowsAhead : \A b \in FlowsAhead : Before(a, b)
       IN  /\ yielded' = Append(yielded,
                                DataflowResult(source_results[ij[1]], sink_results[ij[2]]))
           /\ idx' = ij[1]
           /\ jdx' = ij[2] + 1
    /\ UNCHANGED <<status, raised, phase, call_regex, futures, pending,
                   source_results, sink_results>>
    /\ UNCHANGED <<parseVars, optVars, argVars, clockVars, callVars>>

\* no pair is left: the generator returns
FinishDataflow ==
    /\ phase = "pairs"
    /\ FlowsAhead = {}
    /\ Complete
    /\ UNCHANGED <<raised, call_regex, futures, pending,
                   source_results, sink_results, idx, jdx>>
    /\ UNCHANGED <<parseVars, optVars, argVars, clockVars, callVars>>

\* execute() on a MetricsNode
BeginMetrics ==
    /\ phase = "dispatch"
    /\ call_query.kind = "Metrics"
    /\ phase' = "metrics"
    /\ UNCHANGED <<status, raised, yielded, call_regex, futures, pending,
                   source_results, sink_results, idx, jdx>>
    /\ UNCHANGED <<parseVars, optVars, argVars, clockVars, callVars>>

\* what one pass of the loop of _execute_metrics_query yields for path: the
\* exception of _calculate_metric is caught and printed in the loop
MetricsYield(path, metrics_query) ==
    IF ~ShouldProcessFile(path, None) THEN <<>>
    ELSE LET m == Calculated[<<path, metrics_query.metric_type>>]
         IN  IF m.raised THEN <<>>
             ELSE IF IsNone(metrics_query.threshold)
                     \/ ExceedsThreshold(m.value, Val(metrics_query.threshold))
             THEN <<MetricsResult(path, metrics_query.metric_type, m.value)>>
             ELSE <<>>

\* for path in target_paths: the next path
MetricsStep ==
    /\ phase = "metrics"
    /\ idx <= Len(call_paths)
    /\ yielded' = yielded \o MetricsYield(call_paths[idx], call_query)
    /\ idx' = idx + 1
    /\ StartsUnit
    /\ UNCHANGED <<status, raised, phase, call_regex, futures, pending,
                   source_results, sink_results, jdx>>
    /\ UNCHANGED <<parseVars, optVars, argVars, elapsed, callVars>>

\* the loop is over: the generator returns
FinishMetrics ==
    /\ phase = "metrics"
    /\ idx > Len(call_paths)
    /\ Complete
    /\ UNCHANGED <<raised, call_regex, futures, pending,
                   source_results, sink_results, idx, jdx>>
    /\ UNCHANGED <<parseVars, optVars, argVars, clockVars, callVars>>

\* execute() on any other node: Unsupported query type
BeginUnsupported ==
    /\ phase = "dispatch"
    /\ call_query.kind \notin {"Pattern", "Dataflow", "Metrics"}
    /\ Fail
    /\ UNCHANGED <<call_regex, futures, pending,
                   source_results, sink_results, idx, jdx>>
    /\ UNCHANGED <<parseVars, optVars, argVars, clockVars, callVars>>

\* the wall clock advances while the call runs; the code never reads it
Tick ==
    /\ status = "Running"
    /\ elapsed < timeout
    /\ elapsed' = elapsed + 1
    /\ UNCHANGED <<parseVars, optVars, argVars, runVars, late_work, callVars>>

\* NewCall, were the results kept in the executor from one call to the next
NewCallKeepingResults(q, paths, how) ==
    /\ status \in Terminal
    /\ call_no = 1
    /\ call_no' = 2
    /\ relation' = how
    /\ prev_yielded' = yielded
    /\ prev_raised' = raised
    /\ call_query' = q
    /\ status' = "Pending"
    /\ raised' = "none"
    /\ yielded' = yielded
    /\ phase' = "start"
    /\ call_regex' = NoRegex
    /\ futures' = <<>>
    /\ pending' = <<>>
    /\ source_results' = <<>>
    /\ sink_results' = <<>>
    /\ idx' = 1
    /\ jdx' = 1
    /\ elapsed' = 0
    /\ late_work' = FALSE
    /\ call_paths' = paths
    /\ UNCHANGED <<parseVars, optVars, max_workers, timeout, result_cache>>

\* a new execute() call on the same executor, once the first has ended: the
\* generator's locals are new, the executor's fields are as they were
NewCall(q, paths, how) ==
    /\ status \in Terminal
    /\ call_no = 1
    /\ call_no' = 2
    /\ relation' = how
    /\ prev_yielded' = yielded
    /\ prev_raised' = raised
    /\ call_query' = q
    /\ status' = "Pending"
    /\ raised' = "none"
    /\ yielded' = <<>>
    /\ phase' = "start"
    /\ call_regex' = NoRegex
    /\ futures' = <<>>
    /\ pending' = <<>>
    /\ source_results' = <<>>
    /\ sink_results' = <<>>
    /\ idx' = 1
    /\ jdx' = 1
    /\ elapsed' = 0
    /\ late_work' = FALSE
    /\ call_paths' = paths
    /\ UNCHANGED <<parseVars, optVars, max_workers, timeout, result_cache>>

\* execute(q, files) again, with the same arguments
ExecuteAgain == NewCall(call_query, call_paths, "same")

\* execute(optimize(q), files), q optimized by a new optimizer
ExecuteOptimized == NewCall(FreshOptimize(call_query), call_paths, "optimized")

\* a path whose open() or read raises
Unreadable(path) == FileSystem[path].open_fails \/ FileSystem[path].read_fails

\* execute(q, files without the paths that cannot be read)
ExecuteReadable ==
    /\ \E i \in 1..Len(call_paths) : Unreadable(call_paths[i])
    /\ NewCall(call_query, SelectSeq(call_paths, LAMBDA p : ~Unreadable(p)), "readable")

Advance ==
    \/ Start
    \/ BeginPattern \/ WorkerStart \/ WorkerFinish \/ Collect \/ YieldPattern \/ FinishPattern
    \/ BeginDataflow \/ ScanSource \/ BeginSinks \/ ScanSink \/ BeginPairs
    \/ YieldDataflow \/ FinishDataflow
    \/ BeginMetrics \/ MetricsStep \/ FinishMetrics
    \/ BeginUnsupported

NextExecutor == Advance \/ Tick

\* one execute() call, under the clock
SpecExecutor == InitExecutor /\ [][NextExecutor]_vars

\* the steps of the caller, who goes on consuming the generator
Consume ==
    \/ Start
    \/ BeginPattern \/ Collect \/ YieldPattern \/ FinishPattern
    \/ BeginDataflow \/ ScanSource \/ BeginSinks \/ ScanSink \/ BeginPairs
    \/ YieldDataflow \/ FinishDataflow
    \/ BeginMetrics \/ MetricsStep \/ FinishMetrics
    \/ BeginUnsupported

\* one execute() call consumed to the end: the caller keeps calling next(), the
\* pool's threads are scheduled, and every _search_file returns
SpecExecutorFair ==
    /\ InitExecutor
    /\ [][NextExecutor]_vars
    /\ WF_vars(Consume)
    /\ WF_vars(WorkerStart)
    /\ WF_vars(WorkerFinish)

NextCalls == Advance \/ ExecuteAgain \/ ExecuteOptimized \/ ExecuteReadable

\* an execute() call followed by a second one on the same executor
SpecCalls == InitExecutor /\ [][NextCalls]_vars

(***************************************************************************)
(* QueryParser (query_parser.py): the free-text grammar.                   *)
(***************************************************************************)
\* s.find(sub) + 1: where sub first occurs in s, 0 if it does not
Find(s, sub) ==
    IF Contains(s, sub)
    THEN CHOOSE i \in 1..(Len(s) - Len(sub) + 1) :
            /\ SubSeq(s, i, i + Len(sub) - 1) = sub
            /\ \A j \in 1..(i - 1) : SubSeq(s, j, j + Len(sub) - 1) # sub
    ELSE 0

\* s.split(sep, 1)
SplitOnce(s, sep) ==
    LET i == Find(s, sep)
    IN  IF i = 0 THEN <<s>> ELSE <<SubSeq(s, 1, i - 1), From(s, i + Len(sep))>>

\* s.split(): the whitespace-separated tokens
RECURSIVE SplitWs(_, _)
SplitWs(s, cur) ==
    LET done == IF cur = "" THEN <<>> ELSE <<cur>>
    IN  IF s = "" THEN done
        ELSE IF IsSpace(Ch(s, 1)) THEN done \o SplitWs(From(s, 2), "")
        ELSE SplitWs(From(s, 2), cur \o Ch(s, 1))

\* ' '.join(items)
RECURSIVE JoinSpace(_)
JoinSpace(items) ==
    IF items = <<>> THEN ""
    ELSE IF Len(items) = 1 THEN items[1]
    ELSE items[1] \o " " \o JoinSpace(Tail(items))

\* s.split(',')
RECURSIVE SplitComma(_, _)
SplitComma(s, cur) ==
    IF s = "" THEN <<cur>>
    ELSE IF Ch(s, 1) = "," THEN <<cur>> \o SplitComma(From(s, 2), "")
    ELSE SplitComma(From(s, 2), cur \o Ch(s, 1))

\* s.isdigit()
IsDigitStr(s) == s # "" /\ \A i \in 1..Len(s) : IsDigit(Ch(s, i))

\* int(s) of a string of digits ("" gives 0)
RECURSIVE StrToInt(_)
StrToInt(s) ==
    IF s = "" THEN 0
    ELSE 10 * StrToInt(SubSeq(s, 1, Len(s) - 1))
            + (CHOOSE d \in 0..9 : Ch(Digits, d + 1) = Ch(s, Len(s)))

\* float(s) of a string of digits and dots that has a digit: the value in
\* 1/10000 (up to four decimals), or a ValueError when there are two dots
ParseFloat(s) ==
    IF Count(s, ".") > 1 THEN [raised |-> TRUE, value |-> 0]
    ELSE LET parts == SplitOnce(s, ".")
             frac == IF Len(parts) = 2 THEN SubSeq(parts[2] \o "0000", 1, 4) ELSE "0000"
         IN  [raised |-> FALSE, value |-> StrToInt(parts[1]) * 10000 + StrToInt(frac)]

\* what a parse call hands back: an IR node, or the exception it raised
Returned(node) == [raised |-> "none", node |-> node]
Raised(exception) == [raised |-> exception, node |-> NoQuery]

DataflowKeywords == <<"flow", "from", "to", "sink">>
MetricsKeywords == <<"metric", "count", "complexity">>

\* the classification, were the Metrics keywords tested first
DetermineQueryTypeMetricsFirst(query_text) ==
    LET lower_query == Lower(query_text)
    IN  IF \E k \in 1..Len(MetricsKeywords) : Contains(lower_query, MetricsKeywords[k])
        THEN "METRICS"
        ELSE IF \E k \in 1..Len(DataflowKeywords) : Contains(lower_query, DataflowKeywords[k])
        THEN "DATAFLOW"
        ELSE "PATTERN_MATCH"

\* _determine_query_type
DetermineQueryType(query_text) ==
    LET lower_query == Lower(query_text)
    IN  IF \E k \in 1..Len(DataflowKeywords) : Contains(lower_query, DataflowKeywords[k])
        THEN "DATAFLOW"
        ELSE IF \E k \in 1..Len(MetricsKeywords) : Contains(lower_query, MetricsKeywords[k])
        THEN "METRICS"
        ELSE "PATTERN_MATCH"

\* the modifier steps of _parse_pattern_query: [raised, value, query_text],
\* value the token after the marker, None when the marker is absent
ExtractModifier(query_text, marker) ==
    IF ~Contains(query_text, marker)
    THEN [raised |-> FALSE, value |-> None, query_text |-> query_text]
    ELSE LET parts == SplitOnce(query_text, marker)
             rest == SplitWs(parts[2], "")
         IN  IF rest = <<>>
             THEN [raised |-> TRUE, value |-> None, query_text |-> query_text]
             ELSE [raised |-> FALSE, value |-> Some(rest[1]),
                   query_text |-> parts[1] \o JoinSpace(Tail(rest))]

\* _parse_pattern_query: the markers are language: and case:
ParsePatternQuery(query_text) ==
    LET l == ExtractModifier(query_text, "language:")
        c == ExtractModifier(l.query_text, "case:")
        case_sensitive ==
            IF IsNone(c.value) THEN TRUE
            ELSE Lower(Val(c.value)) \notin {"false", "no", "0"}
    IN  IF l.raised THEN Raised("IndexError")
        ELSE IF c.raised THEN Raised("IndexError")
        ELSE Returned(PatternNode(Strip(c.query_text), l.value, case_sensitive, FALSE, None))

\* the comprehension, were it over reversed(items)
StripAllReversed(items) == [k \in 1..Len(items) |-> Strip(items[Len(items) + 1 - k])]

\* [s.strip() for s in items]
StripAll(items) == [k \in 1..Len(items) |-> Strip(items[k])]

\* _parse_dataflow_query; parts[1] of a one-element list is an IndexError
ParseDataflowQuery(query_text) ==
    IF ~Contains(query_text, "from") \/ ~Contains(query_text, "to")
    THEN Raised("QueryParseError")
    ELSE LET parts == SplitOnce(SplitOnce(query_text, "from")[2], "to")
         IN  IF Len(parts) < 2 THEN Raised("IndexError")
             ELSE LET source == Strip(parts[1])
                      sink_part == parts[2]
                      sink_parts == SplitOnce(sink_part, "sanitize")
                  IN  IF Contains(sink_part, "sanitize")
                      THEN Returned(DataflowNode(source, Strip(sink_parts[1]),
                                        Some(StripAll(SplitComma(sink_parts[2], ""))), None))
                      ELSE Returned(DataflowNode(source, Strip(sink_part), Some(<<>>), None))

\* _parse_metrics_query
ParseMetricsQuery(query_text) ==
    LET parts == SplitWs(query_text, "")
    IN  IF parts = <<>> THEN Raised("IndexError")
        ELSE IF Len(parts) > 1 /\ IsDigitStr(Replace(parts[2], ".", ""))
        THEN LET f == ParseFloat(parts[2])
             IN  IF f.raised THEN Raised("ValueError")
                 ELSE Returned(MetricsNode(Lower(parts[1]), Some(f.value), None))
        ELSE Returned(MetricsNode(Lower(parts[1]), None, None))

\* parse(), were what a branch raises let through
ParseUnwrapped(query_text) ==
    LET text == Strip(query_text)
        query_type == DetermineQueryType(text)
    IN  IF query_type = "PATTERN_MATCH" THEN ParsePatternQuery(text)
        ELSE IF query_type = "DATAFLOW" THEN ParseDataflowQuery(text)
        ELSE ParseMetricsQuery(text)

\* QueryParser.parse: whatever the branch raises leaves as QueryParseError
Parse(query_text) ==
    LET text == Strip(query_text)
        query_type == DetermineQueryType(text)
        r == IF query_type = "PATTERN_MATCH" THEN ParsePatternQuery(text)
             ELSE IF query_type = "DATAFLOW" THEN ParseDataflowQuery(text)
             ELSE ParseMetricsQuery(text)
    IN  IF r.raised = "none" THEN r ELSE Raised("QueryParseError")

(***************************************************************************)
(* QueryParser of the prefixed grammar, 'type:pattern'.                    *)
(***************************************************************************)
VALID_QUERY_TYPES == {"ast_pattern", "metrics", "security"}

Query(type, pattern) == [kind |-> "Query", type |-> type, pattern |-> pattern, options |-> None]

\* QueryParser.parse of the prefixed grammar; each _parse_*_pattern rejects
\* an empty pattern
PrefixedParse(query_str) ==
    IF query_str = "" THEN Raised("ValueError")
    ELSE LET parts == SplitOnce(query_str, ":")
         IN  IF Len(parts) < 2 THEN Raised("ValueError")
             ELSE LET query_type == Lower(Strip(parts[1]))
                      pattern == Strip(parts[2])
                  IN  IF query_type \notin VALID_QUERY_TYPES THEN Raised("ValueError")
                      ELSE IF pattern = "" THEN Raised("ValueError")
                      ELSE Returned(Query(query_type, pattern))

(***************************************************************************)
(* Query texts handed to parse().                                          *)
(***************************************************************************)
Words ==
    {"", "from", "to", "bad", "complexity", "5.5", "word:true", "case:NO",
     "language:py", "unknown_type", "metrics:", "Count", "1.2.3"}

\* the texts of up to n words, a blank between two words
RECURSIVE Texts(_)
Texts(n) ==
    IF n = 1 THEN Words
    ELSE Texts(n - 1) \cup {t \o " " \o w : t \in Texts(n - 1), w \in Words}

\* 'flow from <source> to <sink> sanitize <list>' with its parts varied
DataflowTexts ==
    {pre \o "from" \o src \o "to" \o snk \o san :
        pre \in {"", "flow "},
        src \in {"", " bad ", " x, bad "},
        snk \in {"", " bad", " Sink "},
        san \in {"", "sanitize", " sanitize x, bad", "sanitize bad ,x,"}}

\* metric types on their own and with a threshold
MetricsTexts == {"loc", "LOC", "loc 10", "Complexity", "complexity 5.5"}

ParseTexts == Texts(MaxWords) \cup DataflowTexts \cup MetricsTexts

(***************************************************************************)
(* The parsers as a state machine: one parse() call on a new parser.       *)
(***************************************************************************)
InitParser == OptimizerNew /\ ExecutorIdle /\ ParserIdle

\* parse(query_text) of the free-text grammar
ParseCall ==
    /\ parse_ret = NotParsed
    /\ \E t \in ParseTexts :
        /\ parse_text' = t
        /\ parse_grammar' = "text"
        /\ parse_ret' = Parse(t)
    /\ UNCHANGED <<optVars, execVars>>

\* parse(query_str) of the prefixed grammar
ParsePrefixedCall ==
    /\ parse_ret = NotParsed
    /\ \E t \in ParseTexts :
        /\ parse_text' = t
        /\ parse_grammar' = "prefixed"
        /\ parse_ret' = PrefixedParse(t)
    /\ UNCHANGED <<optVars, execVars>>

NextParser == ParseCall \/ ParsePrefixedCall

SpecParser == InitParser /\ [][NextParser]_vars

\* the call was made
Parsed == parse_ret # NotParsed

(***************************************************************************)
(* The three entry points: one call of parse(), optimize() or execute() on *)
(* new components.                                                         *)
(***************************************************************************)
\* texts that parse, and texts whose branch raises: no 'to', no 'to' after
\* 'from', a threshold float() rejects
EntryTexts ==
    {"", "a", "*a", "flow from a to b", "from a", "from a to", "to from a", "complexity 5.5",
     "complexity 1.2.3", "count 1..2", "unknown_type test"}

\* IR handed to optimize(): of every variant, and one whose threshold is a str
EntryQueries ==
    {PatternNode(".*a.*", None, TRUE, FALSE, None),
     DataflowNode("a", "b", Some(<<"a.b", "chk">>), None),
     MetricsNode("LOC", Some(56789), None),
     MetricsNodeTextThreshold("loc", "high", None),
     QueryNode(None)}

\* nothing has been called yet
Unused ==
    /\ parse_ret = NotParsed
    /\ opt_query = NoQuery
    /\ call_no = 0

InitEntryPoints == OptimizerNew /\ ExecutorIdle /\ ParserIdle

\* parse(text)
ParseEntry ==
    /\ Unused
    /\ \E t \in EntryTexts :
        /\ parse_text' = t
        /\ parse_grammar' = "text"
        /\ parse_ret' = Parse(t)
    /\ UNCHANGED <<optVars, execVars>>

\* optimize(q)
OptimizeEntry ==
    /\ Unused
    /\ \E q \in EntryQueries : DoOptimize(q, FALSE)

\* execute(q, paths): the generator is made, not yet advanced
ExecuteEntry ==
    /\ Unused
    /\ \E q \in ExecQueries, paths \in FileLists :
        /\ call_query' = q
        /\ call_paths' = paths
    /\ call_no' = 1
    /\ UNCHANGED <<max_workers, timeout, result_cache, runVars, clockVars,
                   relation, prev_yielded, prev_raised>>
    /\ UNCHANGED <<parseVars, optVars>>

NextEntryPoints == ParseEntry \/ OptimizeEntry \/ ExecuteEntry \/ Advance

SpecEntryPoints == InitEntryPoints /\ [][NextEntryPoints]_vars

(***************************************************************************)
(* Claims about the optimizer.                                             *)
(***************************************************************************)
\* C1: whatever optimize() calls came before on the same optimizer, optimize(q)
\* of a Pattern or Dataflow query returns what a new, empty-cache optimizer
\* returns for q.
C1_CacheHitReturnsFreshRewrite ==
    opt_query.kind \in {"Pattern", "Dataflow"} => opt_ret = FreshOptimize(opt_query)

\* C2: on an optimizer that starts with empty caches, optimize(optimize(q)) is
\* value-equal to optimize(q), for every variant.
C2_OptimizeIdempotent ==
    (opt_calls = 2 /\ opt_fed) => opt_ret = opt_query

(***************************************************************************)
(* Claims about the executor.                                              *)
(***************************************************************************)
\* a result without its confidence
Core(r) ==
    [file_path |-> r.file_path, line_number |-> r.line_number, column |-> r.column,
     snippet |-> r.snippet, metadata |-> r.metadata]

Occurrences(rs, x) == Cardinality({i \in 1..Len(rs) : Core(rs[i]) = x})

SameMultiset(rs, ts) ==
    /\ Len(rs) = Len(ts)
    /\ \A i \in 1..Len(rs) : Occurrences(rs, Core(rs[i])) = Occurrences(ts, Core(rs[i]))

\* C3: execute(optimize(q), files) yields the same multiset of results (file,
\* line, column, snippet, metadata) as execute(q, files).
C3_OptimizerPreservesResults ==
    (call_no = 2 /\ relation = "optimized" /\ status \in Terminal)
        => SameMultiset(yielded, prev_yielded)

\* C4: when the budget elapses before the call has completed, the call ends
\* with TimeoutError, so it does not return normally, and no per-file unit is
\* started once the budget is used up.
C4_TimeoutEnforced ==
    /\ ~late_work
    /\ (status \in Terminal /\ elapsed >= timeout /\ raised # "QueryExecutionError")
          => raised = "TimeoutError"

\* C5: a path that cannot be read contributes no result and no error, and the
\* other files' results are those of the call without that path.
C5_PerFileFailureIsolated ==
    (call_no = 2 /\ relation = "readable" /\ status \in Terminal) =>
        /\ \A i \in 1..Len(prev_yielded) : ~Unreadable(prev_yielded[i].file_path)
        /\ raised = prev_raised
        /\ SameMultiset(SelectSeq(prev_yielded, LAMBDA r : ~Unreadable(r.file_path)), yielded)

SupportedMetrics == {"complexity", "loc"}

Supported(path) == \E i \in 1..Len(Extractors) : Suffix(path) \in Extractors[i].extensions

\* C6: a call given an unsupported node, or a Metrics query of an unsupported
\* metric_type (stated for the calls that reach a file to measure), ends with
\* QueryExecutionError and never returns normally.
C6_UnsupportedFailsCall ==
    (/\ status \in Terminal
     /\ \/ call_query.kind \notin {"Pattern", "Dataflow", "Metrics"}
        \/ /\ call_query.kind = "Metrics"
           /\ call_query.metric_type \notin SupportedMetrics
           /\ \E k \in 1..Len(call_paths) :
                 Supported(call_paths[k]) /\ ~Unreadable(call_paths[k]))
        => (status = "Failed" /\ raised = "QueryExecutionError")

IsPrefix(rs, ts) == Len(rs) <= Len(ts) /\ SubSeq(ts, 1, Len(rs)) = rs

\* C7: a call goes Pending -> Running -> one of Completed, Failed, TimedOut; a
\* terminal state is never left, nothing is yielded after it, and what was
\* yielded is never taken back.
C7_CallStateMachine ==
    [][/\ status = "Pending" => status' \in {"Pending", "Running"}
       /\ status = "Running" => status' \in {"Running"} \cup Terminal
       /\ status \in Terminal => (status' = status /\ yielded' = yielded)
       /\ IsPrefix(yielded, yielded')]_vars

\* a call that completed after it yielded several results
C7_Witness == status = "Completed" /\ Len(yielded) >= 2

\* the extension table maps the path's lower-cased extension to language
MapsTo(path, language) ==
    \E e \in DOMAIN LanguageMap : e = Lower(Suffix(path)) /\ LanguageMap[e] = language

C9_PatternOrderedWithinFile ==
    call_query.kind = "Pattern" =>
        \A i, j \in 1..Len(yielded) :
            (i < j /\ yielded[i].file_path = yielded[j].file_path) =>
                \/ yielded[i].line_number < yielded[j].line_number
                \/ /\ yielded[i].line_number = yielded[j].line_number
                   /\ yielded[i].column <= yielded[j].column

\* a completed Pattern call over two files whose results came out in the
\* opposite of list order, one file with several results
C9_Witness ==
    /\ status = "Completed"
    /\ call_query.kind = "Pattern"
    /\ Len(call_paths) = 2
    /\ yielded # <<>>
    /\ yielded[1].file_path = call_paths[2]
    /\ yielded[Len(yielded)].file_path = call_paths[1]
    /\ \E i, j \in 1..Len(yielded) : i < j /\ yielded[i].file_path = yielded[j].file_path

PathIndex(path) == CHOOSE k \in 1..Len(call_paths) : call_paths[k] = path

\* C10: Dataflow and Metrics results come in the order of the file list, and a
\* second execution with the same arguments yields the same sequence.
C10_FileListOrder ==
    call_query.kind \in {"Dataflow", "Metrics"} =>
        /\ \A i, j \in 1..Len(yielded) :
              i < j => PathIndex(yielded[i].file_path) <= PathIndex(yielded[j].file_path)
        /\ (call_no = 2 /\ relation = "same" /\ status \in Terminal)
              => yielded = prev_yielded

\* a Dataflow call run twice that yielded findings of two files
C10_Witness ==
    /\ call_no = 2 /\ relation = "same" /\ status = "Completed"
    /\ call_query.kind = "Dataflow"
    /\ \E i, j \in 1..Len(yielded) : yielded[i].file_path # yielded[j].file_path

\* C11: in a Pattern call at most max_workers per-file scans run at any moment,
\* and a Dataflow or Metrics call has no pool unit at all: its files are
\* handled one after the other by the calling thread.
C11_PoolBounded ==
    /\ Cardinality({i \in 1..Len(futures) : Running(i)}) <= max_workers
    /\ call_query.kind \in {"Dataflow", "Metrics"} => futures = <<>>

\* a Pattern call whose pool is full while another unit waits in the queue
C11_Witness ==
    /\ call_query.kind = "Pattern"
    /\ Cardinality({i \in 1..Len(futures) : Running(i)}) = max_workers
    /\ \E i \in 1..Len(futures) : futures[i].state = "queued"

\* the matches of a pattern text in the eligible files of the call
MatchesOf(text) == FindPattern(ReCompile(text, FALSE), call_paths, 1)

\* some configured sanitizer occurs in a line of the file from a's to b's
SanitizerBetween(a, b) ==
    /\ ~IsNone(call_query.sanitizers)
    /\ \E k \in 1..Len(Val(call_query.sanitizers)) :
         \E i \in a.line_number..b.line_number :
            /\ i <= Len(FileSystem[a.file_path].lines)
            /\ Contains(FileSystem[a.file_path].lines[i], Val(call_query.sanitizers)[k])

\* the <<source match, sink match>> pairs that are to give a finding
FlowPairs ==
    LET S == MatchesOf(call_query.source)
        K == MatchesOf(call_query.sink)
    IN  {sk \in {<<S[i], K[j], i, j>> : i \in 1..Len(S), j \in 1..Len(K)} :
            /\ sk[1].file_path = sk[2].file_path
            /\ sk[1].line_number < sk[2].line_number
            /\ ~SanitizerBetween(sk[1], sk[2])}

ResultsOf(path) == {n \in 1..Len(yielded) : yielded[n].file_path = path}

\* the metric of the call can be computed for the path
Measurable(path) == ~CalculateMetric(path, call_query.metric_type).raised

\* C13: a completed Metrics call has yielded at most one result per file, none
\* for a file that is not eligible, and for an eligible file whose metric is
\* computed one result (line 1, the value in metadata) exactly when there is
\* no threshold or the value is strictly greater than it.
C13_MetricsThreshold ==
    (call_query.kind = "Metrics" /\ status = "Completed") =>
        \A k \in 1..Len(call_paths) :
            LET path == call_paths[k]
                value == CalculateMetric(path, call_query.metric_type).value
            IN  /\ Cardinality(ResultsOf(path)) <= 1
                /\ ~Supported(path) => ResultsOf(path) = {}
                /\ (Supported(path) /\ Measurable(path)) =>
                      /\ ResultsOf(path) # {}
                            <=> \/ IsNone(call_query.threshold)
                                \/ ~(value * 10000 <= Val(call_query.threshold))
                      /\ \A n \in ResultsOf(path) :
                            /\ yielded[n].line_number = 1
                            /\ yielded[n].metadata = [value |-> value]

\* a completed Metrics call with a threshold that one file's value equals,
\* which gave nothing, and another file's value exceeds
C13_Witness ==
    /\ call_query.kind = "Metrics" /\ status = "Completed"
    /\ ~IsNone(call_query.threshold)
    /\ yielded # <<>>
    /\ \E k \in 1..Len(call_paths) :
          /\ Supported(call_paths[k]) /\ Measurable(call_paths[k])
          /\ CalculateMetric(call_paths[k], call_query.metric_type).value * 10000
                = Val(call_query.threshold)
          /\ ResultsOf(call_paths[k]) = {}

(***************************************************************************)
(* Claims about the parser.                                                *)
(***************************************************************************)
\* a parse() call of the free-text grammar was made
ParsedText == Parsed /\ parse_grammar = "text"

\* C14: parse() of an empty or whitespace-only text raises QueryParseError.
C14_EmptyTextFails ==
    (ParsedText /\ \A i \in 1..Len(parse_text) : IsSpace(Ch(parse_text, i)))
        => parse_ret.raised = "QueryParseError"

\* the text, lower-cased, has one of the keywords as a substring
HasAny(text, keywords) == \E kw \in keywords : Contains(Lower(text), kw)

\* the variant the keyword rule selects for a text
Selected(text) ==
    IF HasAny(text, {"flow", "from", "to", "sink"}) THEN "Dataflow"
    ELSE IF HasAny(text, {"metric", "count", "complexity"}) THEN "Metrics"
    ELSE "Pattern"

FromThenTo(text) ==
    \E i \in 1..(Len(text) - 3), j \in 1..(Len(text) - 1) :
        /\ SubSeq(text, i, i + 3) = "from"
        /\ SubSeq(text, j, j + 1) = "to"
        /\ j >= i + 4

\* what follows the first occurrence of a keyword that the text has
After(text, keyword) == From(text, Find(text, keyword) + Len(keyword))

\* what precedes the first occurrence of a keyword, the whole text if absent
UpTo(text, keyword) ==
    IF Contains(text, keyword) THEN SubSeq(text, 1, Find(text, keyword) - 1) ELSE text

\* the n-th of the items that the commas of a text separate
Item(text, n) ==
    LET commas == {p \in 1..Len(text) : Ch(text, p) = ","}
        nth(m) == CHOOSE p \in commas : Cardinality({q \in commas : q < p}) = m - 1
        first == IF n = 1 THEN 1 ELSE nth(n - 1) + 1
        last == IF n = Cardinality(commas) + 1 THEN Len(text) ELSE nth(n) - 1
    IN  SubSeq(text, first, last)

\* C16: a text handled as Dataflow that lacks the keyword from, or a keyword
\* to after it, raises QueryParseError; a Dataflow node that is returned has as
\* source the trimmed text between from and to, as sink the trimmed text after
\* to up to sanitize, and, when sanitize is there, as sanitizers the trimmed
\* comma-separated items after it in their written order.
C16_DataflowParsing ==
    (ParsedText /\ Selected(parse_text) = "Dataflow") =>
        LET text == Strip(parse_text)
            after_to == After(After(text, "from"), "to")
            listed == After(after_to, "sanitize")
            node == parse_ret.node
        IN  /\ ~FromThenTo(text) => parse_ret.raised = "QueryParseError"
            /\ parse_ret.raised = "none" =>
                /\ node.source = Strip(UpTo(After(text, "from"), "to"))
                /\ node.sink = Strip(UpTo(after_to, "sanitize"))
                /\ Contains(after_to, "sanitize") =>
                    /\ ~IsNone(node.sanitizers)
                    /\ Len(Val(node.sanitizers)) = Count(listed, ",") + 1
                    /\ \A n \in 1..Len(Val(node.sanitizers)) :
                          Val(node.sanitizers)[n] = Strip(Item(listed, n))

\* a returned Dataflow node with a source, a sink and two different sanitizers
C16_Witness ==
    /\ ParsedText /\ parse_ret.raised = "none"
    /\ parse_ret.node.kind = "Dataflow"
    /\ parse_ret.node.source # "" /\ parse_ret.node.sink # ""
    /\ ~IsNone(parse_ret.node.sanitizers)
    /\ Len(Val(parse_ret.node.sanitizers)) >= 2
    /\ Val(parse_ret.node.sanitizers)[1] # Val(parse_ret.node.sanitizers)[2]

\* C17: a Dataflow node parsed from a text without the keyword sanitize has
\* sanitizers None.
C17_NoSanitizeLeavesNone ==
    (/\ ParsedText /\ parse_ret.raised = "none"
     /\ parse_ret.node.kind = "Dataflow"
     /\ ~Contains(parse_text, "sanitize"))
        => IsNone(parse_ret.node.sanitizers)

\* the token is a decimal numeral: digits, with at most one point among them
IsNumeral(token) ==
    /\ \E i \in 1..Len(token) : IsDigit(Ch(token, i))
    /\ \A i \in 1..Len(token) : IsDigit(Ch(token, i)) \/ Ch(token, i) = "."
    /\ Count(token, ".") <= 1

\* C18: a text handled as Metrics whose second token is not a number raises
\* QueryParseError.
C18_BadThresholdFails ==
    (/\ ParsedText
     /\ Selected(parse_text) = "Metrics"
     /\ Len(SplitWs(parse_text, "")) >= 2
     /\ ~IsNumeral(SplitWs(parse_text, "")[2]))
        => parse_ret.raised = "QueryParseError"

\* C19: a Pattern node parsed from a text with the modifier word:true has
\* whole_word set and no word: token left in its pattern.
C19_WordModifier ==
    (/\ ParsedText /\ parse_ret.raised = "none"
     /\ parse_ret.node.kind = "Pattern"
     /\ \E k \in 1..Len(SplitWs(parse_text, "")) : SplitWs(parse_text, "")[k] = "word:true")
        => /\ parse_ret.node.whole_word
           /\ ~Contains(parse_ret.node.pattern, "word:")

\* C20: parse(), of either grammar, raises for a text that starts with the
\* unknown type unknown_type.
C20_UnknownTypeFails ==
    (Parsed /\ StartsWith(parse_text, "unknown_type")) => parse_ret.raised # "none"

\* C21: a text that is one metric type (complexity, loc, in any case) and
\* nothing else parses to a Metrics node of that type, lower-cased, with
\* threshold None.
C21_BareMetricType ==
    (/\ ParsedText
     /\ Len(SplitWs(parse_text, "")) = 1
     /\ Lower(SplitWs(parse_text, "")[1]) \in SupportedMetrics)
        => parse_ret = Returned(MetricsNode(Lower(SplitWs(parse_text, "")[1]), None, None))

(***************************************************************************)
(* Further claims about the optimizer.                                     *)
(***************************************************************************)
\* C22: the pattern a new optimizer returns for a Pattern query has no '.*.*'
\* in it and neither starts nor ends with '.*'.
C22_WildcardsCanonical ==
    (opt_calls = 1 /\ opt_query.kind = "Pattern") =>
        /\ ~Contains(opt_ret.pattern, ".*.*")
        /\ ~StartsWith(opt_ret.pattern, ".*")
        /\ ~EndsWith(opt_ret.pattern, ".*")

\* length(name) + 2 * (number of '.' in name)
Score(name) == Len(name) + 2 * Cardinality({i \in 1..Len(name) : Ch(name, i) = "."})

\* where a name is first seen in a list
FirstSeen(names, name) == CHOOSE i \in 1..Len(names) :
    names[i] = name /\ \A j \in 1..(i - 1) : names[j] # name

\* C23: optimize() of a Dataflow query with a non-empty sanitizer list returns
\* a list of the same names without duplicates, in non-decreasing order of
\* score, names of equal score in first-seen order.
C23_SanitizersNormalized ==
    (opt_query.kind = "Dataflow" /\ opt_query.sanitizers \notin {None, Some(<<>>)}) =>
        /\ ~IsNone(opt_ret.sanitizers)
        /\ LET given == Val(opt_query.sanitizers)
               out == Val(opt_ret.sanitizers)
           IN  /\ {out[i] : i \in 1..Len(out)} = {given[i] : i \in 1..Len(given)}
               /\ \A i, j \in 1..Len(out) : i # j => out[i] # out[j]
               /\ \A i, j \in 1..Len(out) : i < j =>
                    \/ Score(out[i]) < Score(out[j])
                    \/ /\ Score(out[i]) = Score(out[j])
                       /\ FirstSeen(given, out[i]) < FirstSeen(given, out[j])

\* C24: the caches are empty at construction and after clear_caches(), and
\* otherwise hold exactly one entry per distinct Pattern signature and one per
\* distinct (source, sink) signature optimized since then; Metrics queries and
\* repeated queries add none.
C24_CacheLifecycle ==
    /\ Cardinality(DOMAIN pattern_cache) = Cardinality({s \in opt_seen : s[1] = "Pattern"})
    /\ Cardinality(DOMAIN dataflow_cache) = Cardinality({s \in opt_seen : s[1] = "Dataflow"})
    /\ opt_calls = 0 => (pattern_cache = EmptyCache /\ dataflow_cache = EmptyCache)

\* C25: optimize() returns an IR of the variant it was given, and leaves every
\* field of its argument, the sanitizer list included, as it was.
C25_VariantAndArgumentKept ==
    opt_query # NoQuery =>
        /\ opt_raised = "none" => opt_ret.kind = opt_query.kind
        /\ opt_arg = opt_query

\* a Dataflow query whose sanitizers the call reordered in its return value
C25_Witness ==
    /\ opt_query # NoQuery
    /\ opt_query.kind = "Dataflow"
    /\ opt_ret.sanitizers # opt_query.sanitizers
    /\ opt_arg = opt_query

\* the cache key of a Pattern or Dataflow query is in the cache it belongs to
InCache(query, pc, dc) ==
    \/ query.kind = "Pattern" /\ PatternCacheKey(query) \in DOMAIN pc
    \/ query.kind = "Dataflow" /\ DataflowCacheKey(query) \in DOMAIN dc

\* C29: a Pattern query whose (pattern, language, case_sensitive), or a
\* Dataflow query whose (source, sink), differs from that of every query
\* optimized so far does not find its key in the cache: it is rewritten as on
\* a new optimizer.
C29_SignaturesNeverCollide ==
    [][(/\ opt_calls' = opt_calls + 1
        /\ opt_query'.kind \in {"Pattern", "Dataflow"}
        /\ Signature(opt_query') \cap opt_seen = {})
          => /\ ~InCache(opt_query', pattern_cache, dataflow_cache)
             /\ opt_ret' = FreshOptimize(opt_query')]_vars

(***************************************************************************)
(* Further claims about the executor.                                      *)
(***************************************************************************)
\* C26: execute() leaves max_workers, timeout and the result cache of the
\* executor as they were, and a call made after another call with the same
\* arguments ends as that call did, with the same results.
C26_NoCrossCallState ==
    /\ [][/\ max_workers' = max_workers
          /\ timeout' = timeout
          /\ result_cache' = result_cache]_vars
    /\ []((call_no = 2 /\ relation = "same" /\ status \in Terminal) =>
            /\ SameMultiset(yielded, prev_yielded)
            /\ raised = prev_raised)

\* a second call with the arguments of a first one that yielded results, ended
C26_Witness ==
    /\ call_no = 2
    /\ relation = "same"
    /\ status = "Completed"
    /\ Len(prev_yielded) >= 2
    /\ result_cache = EmptyCache

\* <<path, line, column>> of every match of the compiled pattern in line i
MatchesInLine(path, i) ==
    LET ms == FindIter(call_regex, FileSystem[path].lines[i], 1, FALSE)
    IN  {<<path, i, ms[n][1]>> : n \in 1..Len(ms)}

\* the matches in the lines of the call's eligible files (a path that cannot
\* be opened has no lines)
ExpectedMatches ==
    UNION {UNION {MatchesInLine(call_paths[k], i) :
                     i \in 1..Len(FileSystem[call_paths[k]].lines)} :
              k \in {k \in 1..Len(call_paths) :
                        /\ ShouldProcessFile(call_paths[k], call_query.language)
                        /\ ~FileSystem[call_paths[k]].open_fails}}

C30_ConsumptionTerminates ==
    /\ <>(status \in Terminal)
    /\ [](status \in Terminal =>
            /\ phase = "end"
            /\ pending = <<>>
            /\ call_query.kind = "Pattern" =>
                  \A i \in 1..Len(futures) : futures[i].state = "taken")
    /\ [][(status \in Terminal) => (yielded' = yielded)]_vars

\* a Pattern call over two eligible files that ended with both units collected
C30_Witness ==
    /\ status \in Terminal
    /\ call_query.kind = "Pattern"
    /\ Len(futures) = 2
    /\ \A i \in 1..Len(futures) : futures[i].state = "taken"
    /\ yielded # <<>>

=============================================================================
